---- MODULE Spec2Model ----
(***************************************************************************)
(* The AMQP connector of zato-server                                       *)
(* (code/zato-server/src/zato/server/connection/amqp_.py): the registry of *)
(* outgoing connections guarded by the connector's lock, the synchronous   *)
(* publish operation invoke with its merge of message properties, the      *)
(* producer pool it acquires channels from, the Consumer loop, and the     *)
(* connector's _start, create_channels, create_outconns and _stop.         *)
(*                                                                         *)
(* Python values are written as strings holding their literal; a dict is a *)
(* function whose DOMAIN is the set of its keys.                           *)
(***************************************************************************)
EXTENDS Naturals, FiniteSets, Sequences, TLC

\* ------------------------------------------------------------------------
\* Python values

PyNone == "None"
EmptyStr == "''"
Zero == "0"
PyTrue == "True"
PyFalse == "False"

\* Python's truth test on the values above.
Truthy(v) == v \notin {PyNone, EmptyStr, Zero, PyFalse}

EmptyDict == [k \in {} |-> PyNone]

\* d.pop(key, default): the value ...
PopValue(d, key, default) == IF key \in DOMAIN d THEN d[key] ELSE default

\* ... and the dict that is left.
PopRest(d, key) == [j \in (DOMAIN d) \ {key} |-> d[j]]

\* Variant: an update that keeps the entries the dict holds already.
DictUpdate_KeepsOld(d, e) == d @@ e

\* d.update(e), as a new dict: e's entries win.
DictUpdate(d, e) == e @@ d

\* d[key] = value, as a new dict.
DictSet(d, key, value) == (key :> value) @@ d

\* ------------------------------------------------------------------------
\* Bounds and input sets

\* The greenlets that call the connector concurrently.
Tasks == {"t1", "t2"}

\* Names of the outgoing connections the callers name.
Names == {"A", "B"}

\* An outgoing connection no caller names.
Bystander == "Z"

\* config.pool_size, the limit of the producer pool.
pool_size == 1

\* Names of the channels in self.channels.
Channels == {"ch1", "ch2"}

\* The count of drain timeouts in a row is kept up to this.
MaxTimeouts == 3

default_out_keys ==
    <<"app_id", "content_encoding", "content_type", "delivery_mode",
      "expiration", "priority", "user_id">>

RecognizedKeys == {default_out_keys[i] : i \in 1..Len(default_out_keys)}

\* An outgoing connection's defaults as the admin form sends them: every
\* key present, blank fields as empty strings.
AllEmpty == [k \in RecognizedKeys |-> EmptyStr]

NoTask == "none"
NoOp == [kind |-> "none"]
NoConfig == [name |-> ""]
NoCall == [called |-> FALSE]

\* Connections: none, and the one _start makes and keeps as self.conn
\* (line 91).
NoConn == [of |-> "none", name |-> ""]
SelfConn == [of |-> "connector", name |-> "conn"]

VARIABLES
    outconns,         \* self.outconns: name -> config
    lock,             \* self.lock: the task holding it, or NoTask
    committed,        \* self.outconns as the last completed mutation left it
    pool_dirty,       \* channels of self._producers[self.conn] checked out
    pc,               \* each task's position
    op,               \* each task's current call and its arguments
    outconn_config,   \* invoke's local outconn_config
    acquire_block,    \* invoke's local acquire_block
    acquire_timeout,  \* invoke's local acquire_timeout
    kwargs,           \* invoke's local kwargs, as built for publish
    acq,              \* the call invoke made to the pool's acquire, if any
    pub,              \* the call invoke made to producer.publish, if any
    result,           \* how the task's call ended
    channels,         \* self.channels: channel name -> config
    cpc,              \* each channel's Consumer: its position
    keep_running,     \* each Consumer's keep_running
    timeouts,         \* drain timeouts in a row each Consumer has met
    exit_exc,         \* the exception that ended each Consumer's start
    consumer_conn,    \* the connection each Consumer was given
    phase,            \* how far the connector's _start and _stop have come
    conn,             \* self.conn: the state of the connection of _start
    producers,        \* self._producers
    pools,            \* the pools of self._producers: key -> pool
    stop_log          \* the exception _stop logged, if any

connector_vars == <<outconns, lock, committed, pool_dirty, pc, op,
                    outconn_config, acquire_block, acquire_timeout, kwargs,
                    acq, pub, result>>

consumer_vars == <<channels, cpc, keep_running, timeouts, exit_exc,
                   consumer_conn>>

life_vars == <<phase, conn, producers, pools, stop_log>>

vars == <<connector_vars, consumer_vars, life_vars>>

locals == <<outconn_config, acquire_block, acquire_timeout, kwargs>>
spies == <<acq, pub>>
registry == <<outconns, committed>>

\* ------------------------------------------------------------------------
\* invoke: the merge of message properties (lines 196-208)

\* One iteration of the loop over _default_out_keys (line 204):
\*   kwargs[key] = properties.pop(key, None) or outconn_config[key] or None
\* `or` evaluates its right operand only when the left one is falsy, so
\* outconn_config[key] raises KeyError only then.
\* Variant: the last `or None` left out, so a blank default is published.
OrNone_Kept(v) == v

\* x or None: the last operand of line 204.
OrNone(v) == IF Truthy(v) THEN v ELSE PyNone

\* Variant: a key the caller passes wins whatever its value, blank or not.
MergeKey_EmptyCallerWins(st, config, key) ==
    LET rest == PopRest(st.properties, key)
    IN  IF key \in DOMAIN st.properties
        THEN [raised |-> FALSE,
              kwargs |-> DictSet(st.kwargs, key, st.properties[key]),
              properties |-> rest]
        ELSE IF key \notin DOMAIN config.props
        THEN [raised |-> TRUE, kwargs |-> st.kwargs, properties |-> rest]
        ELSE [raised |-> FALSE,
              kwargs |-> DictSet(st.kwargs, key, OrNone(config.props[key])),
              properties |-> rest]

MergeKey(st, config, key) ==
    LET popped == PopValue(st.properties, key, PyNone)
        rest == PopRest(st.properties, key)
    IN  IF Truthy(popped)
        THEN [raised |-> FALSE, kwargs |-> DictSet(st.kwargs, key, popped),
              properties |-> rest]
        ELSE IF key \notin DOMAIN config.props
        THEN [raised |-> TRUE, kwargs |-> st.kwargs, properties |-> rest]
        ELSE [raised |-> FALSE,
              kwargs |-> DictSet(st.kwargs, key, OrNone(config.props[key])),
              properties |-> rest]

\* The loop of lines 199-204 from its i-th key on; it ends at the first
\* KeyError.
RECURSIVE MergeLoop(_, _, _)
MergeLoop(st, config, i) ==
    IF i > Len(default_out_keys) \/ st.raised
    THEN st
    ELSE MergeLoop(MergeKey(st, config, default_out_keys[i]), config, i + 1)

\* properties = properties or {} (line 196); a caller's properties argument
\* is [given |-> FALSE] for None.
PropertiesOrEmpty(p) ==
    IF p.given /\ DOMAIN p.d # {} THEN p.d ELSE EmptyDict

\* Lines 196-208: the kwargs invoke builds for publish, or the KeyError of
\* a key the outgoing connection's config lacks.
BuildKwargs(args, config) ==
    LET start == [raised |-> FALSE,
                  kwargs |-> [exchange |-> args.exchange,
                              routing_key |-> args.routing_key],
                  properties |-> PropertiesOrEmpty(args.properties)]
        st == MergeLoop(start, config, 1)
    IN  IF st.raised
        THEN [raised |-> TRUE, kwargs |-> EmptyDict]
        ELSE [raised |-> FALSE, kwargs |-> DictUpdate(st.kwargs, st.properties)]

\* Lines 191-192:
\*   acquire_block = kwargs.pop('acquire_block', True)
\*   acquire_timeout = kwargs.pop('acquire_block', None)
AcquireArgs(kw) ==
    LET block == PopValue(kw, "acquire_block", PyTrue)
        rest == PopRest(kw, "acquire_block")
    IN  [block |-> block, timeout |-> PopValue(rest, "acquire_block", PyNone)]

\* ------------------------------------------------------------------------
\* The registry of outgoing connections (lines 165-176)

\* A call returns or raises: the task's frame is kept at "done" until the
\* caller takes the outcome.
Finish(t, outcome) ==
    /\ pc' = [pc EXCEPT ![t] = "done"]
    /\ result' = [result EXCEPT ![t] = outcome]

\* Variant: setdefault, an entry already there is kept.
SetOutconn_IfAbsent(d, config) ==
    IF config.name \in DOMAIN d THEN d ELSE DictSet(d, config.name, config)

\* self.outconns[config.name] = config (lines 167, 172)
SetOutconn(d, config) == DictSet(d, config.name, config)

\* Variant: pop(name, None), a missing name goes unnoticed.
DelRaises_Never(d, name) == FALSE

\* del self.outconns[name] (lines 171, 176) raises KeyError for a name that
\* is not a key ...
DelRaises(d, name) == name \notin DOMAIN d

\* Variant: the entry is left in place.
DelOutconn_Nothing(d, name) == d

\* ... and removes the entry otherwise.
DelOutconn(d, name) == PopRest(d, name)

\* with self.lock: (line 166)
CreateEnter(t, config) ==
    /\ pc[t] = "idle"
    /\ lock = NoTask
    /\ lock' = t
    /\ pc' = [pc EXCEPT ![t] = "create"]
    /\ op' = [op EXCEPT ![t] = [kind |-> "create_outconn", config |-> config]]
    /\ UNCHANGED <<consumer_vars, life_vars, registry, pool_dirty, locals, spies, result>>

\* self.outconns[config.name] = config (line 167), and the lock released.
CreateSet(t) ==
    /\ pc[t] = "create"
    /\ outconns' = SetOutconn(outconns, op[t].config)
    /\ committed' = outconns'
    /\ lock' = NoTask
    /\ Finish(t, "ok")
    /\ UNCHANGED <<consumer_vars, life_vars, pool_dirty, op, locals, spies>>

\* with self.lock: (line 170). config.old_name is read by edit_outconn
\* alone, so it is kept beside the config and not in it.
EditEnter(t, old_name, config) ==
    /\ pc[t] = "idle"
    /\ lock = NoTask
    /\ lock' = t
    /\ pc' = [pc EXCEPT ![t] = "edit_del"]
    /\ op' = [op EXCEPT ![t] = [kind |-> "edit_outconn", old_name |-> old_name,
                                config |-> config]]
    /\ UNCHANGED <<consumer_vars, life_vars, registry, pool_dirty, locals, spies, result>>

\* Variant: the lock taken and released by hand around the body, with no
\* try/finally, so that an exception leaves it held.
LockAfterRaise_Held(t) == t

\* An exception leaves the with block (lines 170-171), whose __exit__
\* releases the lock.
LockAfterRaise(t) == NoTask

\* del self.outconns[config.old_name] (line 171): a KeyError leaves the
\* with block, which releases the lock.
EditDel(t) ==
    /\ pc[t] = "edit_del"
    /\ \/ /\ ~DelRaises(outconns, op[t].old_name)
          /\ outconns' = DelOutconn(outconns, op[t].old_name)
          /\ pc' = [pc EXCEPT ![t] = "edit_set"]
          /\ UNCHANGED <<lock, committed, result>>
       \/ /\ DelRaises(outconns, op[t].old_name)
          /\ lock' = LockAfterRaise(t)
          /\ Finish(t, "KeyError")
          /\ UNCHANGED registry
    /\ UNCHANGED <<consumer_vars, life_vars, pool_dirty, op, locals, spies>>

\* self.outconns[config.name] = config (line 172), and the lock released.
EditSet(t) ==
    /\ pc[t] = "edit_set"
    /\ outconns' = SetOutconn(outconns, op[t].config)
    /\ committed' = outconns'
    /\ lock' = NoTask
    /\ Finish(t, "ok")
    /\ UNCHANGED <<consumer_vars, life_vars, pool_dirty, op, locals, spies>>

\* with self.lock: (line 175)
DeleteEnter(t, name) ==
    /\ pc[t] = "idle"
    /\ lock = NoTask
    /\ lock' = t
    /\ pc' = [pc EXCEPT ![t] = "delete"]
    /\ op' = [op EXCEPT ![t] = [kind |-> "delete_outconn", name |-> name]]
    /\ UNCHANGED <<consumer_vars, life_vars, registry, pool_dirty, locals, spies, result>>

\* del self.outconns[config.name] (line 176), and the lock released.
DeleteDel(t) ==
    /\ pc[t] = "delete"
    /\ lock' = NoTask
    /\ \/ /\ ~DelRaises(outconns, op[t].name)
          /\ outconns' = DelOutconn(outconns, op[t].name)
          /\ committed' = outconns'
          /\ Finish(t, "ok")
       \/ /\ DelRaises(outconns, op[t].name)
          /\ Finish(t, "KeyError")
          /\ UNCHANGED registry
    /\ UNCHANGED <<consumer_vars, life_vars, pool_dirty, op, locals, spies>>

\* ------------------------------------------------------------------------
\* invoke (lines 180-211)

\* Variant: the lookup made without waiting for the lock.
InvokeEnter_NoLock(t, calls) ==
    /\ pc[t] = "idle"
    /\ lock' = t
    /\ pc' = [pc EXCEPT ![t] = "inv_lookup"]
    /\ \E args \in calls :
          op' = [op EXCEPT ![t] = [kind |-> "invoke", args |-> args]]
    /\ UNCHANGED <<consumer_vars, life_vars, registry, pool_dirty, locals, spies, result>>

\* A call of invoke with arguments among `calls`, up to with self.lock:
\* (line 184).
InvokeEnter(t, calls) ==
    /\ pc[t] = "idle"
    /\ lock = NoTask
    /\ lock' = t
    /\ pc' = [pc EXCEPT ![t] = "inv_lookup"]
    /\ \E args \in calls :
          op' = [op EXCEPT ![t] = [kind |-> "invoke", args |-> args]]
    /\ UNCHANGED <<consumer_vars, life_vars, registry, pool_dirty, locals, spies, result>>

\* Variant: get(out_name, default), an unknown name yields a blank active
\* config.
InvokeLookup_Default(t) ==
    /\ pc[t] = "inv_lookup"
    /\ lock' = NoTask
    /\ outconn_config' =
          [outconn_config EXCEPT ![t] =
              IF op[t].args.out_name \in DOMAIN outconns
              THEN outconns[op[t].args.out_name]
              ELSE [name |-> op[t].args.out_name, is_active |-> TRUE,
                    props |-> AllEmpty]]
    /\ pc' = [pc EXCEPT ![t] = "inv_prepare"]
    /\ UNCHANGED <<consumer_vars, life_vars, registry, pool_dirty, op, acquire_block, acquire_timeout,
                   kwargs, spies, result>>

\* Variant: the whole of invoke runs inside the with block.
LockAfterLookup_Held(t) == t

\* The with block of lines 184-185 holds the lookup alone: the lock is
\* released before line 188.
LockAfterLookup(t) == NoTask

\* outconn_config = self.outconns[out_name] (line 185), and the lock
\* released; an unknown name raises KeyError.
InvokeLookup(t) ==
    /\ pc[t] = "inv_lookup"
    /\ lock' = LockAfterLookup(t)
    /\ \/ /\ op[t].args.out_name \in DOMAIN outconns
          /\ outconn_config' =
                [outconn_config EXCEPT ![t] = outconns[op[t].args.out_name]]
          /\ pc' = [pc EXCEPT ![t] = "inv_prepare"]
          /\ UNCHANGED result
       \/ /\ op[t].args.out_name \notin DOMAIN outconns
          /\ Finish(t, "KeyError")
          /\ UNCHANGED outconn_config
    /\ UNCHANGED <<consumer_vars, life_vars, registry, pool_dirty, op, acquire_block, acquire_timeout,
                   kwargs, spies>>

\* Variant: the is_active test left out.
NotActive_Ignored(config) == FALSE

\* if not outconn_config['is_active']: (line 188)
NotActive(config) == ~config.is_active

\* Lines 188-208: the is_active test, the acquire arguments and the kwargs.
InvokePrepare(t) ==
    /\ pc[t] = "inv_prepare"
    /\ \/ /\ NotActive(outconn_config[t])
          /\ Finish(t, "Inactive")
          /\ UNCHANGED <<acquire_block, acquire_timeout, kwargs>>
       \/ /\ ~NotActive(outconn_config[t])
          /\ LET a == AcquireArgs(op[t].args.kwargs)
                 built == BuildKwargs(op[t].args, outconn_config[t])
             IN  /\ acquire_block' = [acquire_block EXCEPT ![t] = a.block]
                 /\ acquire_timeout' = [acquire_timeout EXCEPT ![t] = a.timeout]
                 /\ \/ /\ built.raised
                       /\ Finish(t, "KeyError")
                       /\ UNCHANGED kwargs
                    \/ /\ ~built.raised
                       /\ kwargs' = [kwargs EXCEPT ![t] = built.kwargs]
                       /\ pc' = [pc EXCEPT ![t] = "inv_acquire"]
                       /\ UNCHANGED result
    /\ UNCHANGED <<consumer_vars, life_vars, registry, lock, pool_dirty, op, outconn_config, spies>>

\* The larger of two numbers.
Max(a, b) == IF a >= b THEN a ELSE b

\* self.conn, the key of the pool in self._producers[self.conn] (line 210).
PoolKey == SelfConn

\* Variant: the pool's channels run over the connection that is its key.
ProducerConnection_Same(key) == key

\* The connection under a channel of the pool of `key`: one that kombu
\* opens for the pool from the key's parameters (comment of lines 95-96:
\* "when connections are needed by producers or consumers, they will be
\* opened by kombu anyway"), never the key itself.
ProducerConnection(key) == [of |-> "pool", name |-> key.name]

\* A pool as the group makes it when a key is first looked up: `opened`
\* connections were opened for its channels, `closed` of them are closed,
\* `shut` once force_close_all was called.
NewPool == [opened |-> 0, closed |-> 0, shut |-> FALSE]

\* self._producers[key] on the group of line 141: a missing pool is made.
PoolGroupGet(ps, key) == IF key \in DOMAIN ps THEN ps ELSE DictSet(ps, key, NewPool)

\* self._producers[self.conn].acquire(acquire_block, acquire_timeout)
\* (line 210) on a pool of limit pool_size (line 141). With a channel free
\* the call returns it, over a connection opened for it when none is at
\* hand. With none free it raises at once when block is false, raises once
\* the timeout has passed when there is a timeout, and otherwise waits for
\* a release. While self._producers is the list of line 105 the lookup
\* itself is a TypeError; a pool whose connections were force-closed may
\* refuse with RuntimeError.
InvokeAcquire(t) ==
    /\ pc[t] = "inv_acquire"
    /\ \/ /\ producers.kind # "group"
          /\ Finish(t, "TypeError")
          /\ UNCHANGED <<acq, pool_dirty, pools>>
       \/ /\ producers.kind = "group"
          /\ acq' = [acq EXCEPT ![t] =
                        [called |-> TRUE, block |-> acquire_block[t],
                         timeout |-> acquire_timeout[t], pool |-> PoolKey,
                         conn |-> ProducerConnection(PoolKey)]]
          /\ LET ps == PoolGroupGet(pools, PoolKey)
             IN  \/ /\ pool_dirty < producers.limit
                    /\ pool_dirty' = pool_dirty + 1
                    /\ pools' = [ps EXCEPT ![PoolKey].opened =
                                              Max(@, pool_dirty + 1)]
                    /\ pc' = [pc EXCEPT ![t] = "inv_publish"]
                    /\ UNCHANGED result
                 \/ /\ pool_dirty >= producers.limit
                    /\ ~Truthy(acquire_block[t]) \/ acquire_timeout[t] # PyNone
                    /\ Finish(t, "LimitExceeded")
                    /\ pools' = ps
                    /\ UNCHANGED pool_dirty
                 \/ /\ ps[PoolKey].shut
                    /\ Finish(t, "RuntimeError")
                    /\ pools' = ps
                    /\ UNCHANGED pool_dirty
    /\ UNCHANGED <<consumer_vars, phase, conn, producers, stop_log, registry,
                   lock, op, locals, pub>>

\* Variant: the channel goes back only when publish returned.
CheckedOutAfter_LeakOnRaise(n, outcome) == IF outcome = "ok" THEN n - 1 ELSE n

\* The with block of line 210 is left, by the return of line 211 or by an
\* exception: the producer's __exit__ releases the channel either way.
CheckedOutAfter(n, outcome) == n - 1

\* return producer.publish(msg, headers=headers, **kwargs) (line 211), and
\* the channel released as the with block of line 210 is left. A 'headers'
\* key among the kwargs is a TypeError of the call itself; publish returns
\* or raises.
InvokePublish(t) ==
    /\ pc[t] = "inv_publish"
    /\ \/ /\ "headers" \in DOMAIN kwargs[t]
          /\ Finish(t, "TypeError")
          /\ UNCHANGED pub
       \/ /\ "headers" \notin DOMAIN kwargs[t]
          /\ pub' = [pub EXCEPT ![t] = [called |-> TRUE,
                                        headers |-> op[t].args.headers,
                                        kwargs |-> kwargs[t]]]
          /\ \/ Finish(t, "ok")
             \/ Finish(t, "PublishError")
    /\ pool_dirty' = CheckedOutAfter(pool_dirty, result'[t])
    /\ UNCHANGED <<consumer_vars, life_vars, registry, lock, op, locals, acq>>

\* The caller takes the outcome; the frame is gone.
Return(t) ==
    /\ pc[t] = "done"
    /\ pc' = [pc EXCEPT ![t] = "idle"]
    /\ op' = [op EXCEPT ![t] = NoOp]
    /\ outconn_config' = [outconn_config EXCEPT ![t] = NoConfig]
    /\ acquire_block' = [acquire_block EXCEPT ![t] = PyNone]
    /\ acquire_timeout' = [acquire_timeout EXCEPT ![t] = PyNone]
    /\ kwargs' = [kwargs EXCEPT ![t] = EmptyDict]
    /\ acq' = [acq EXCEPT ![t] = NoCall]
    /\ pub' = [pub EXCEPT ![t] = NoCall]
    /\ result' = [result EXCEPT ![t] = "none"]
    /\ UNCHANGED <<consumer_vars, life_vars, registry, lock, pool_dirty>>

\* ------------------------------------------------------------------------
\* Consumer (lines 35-57) and create_channels (lines 119-134)

\* No channel has a Consumer yet.
NoConsumers ==
    /\ cpc = [c \in Channels |-> "unspawned"]
    /\ keep_running = [c \in Channels |-> FALSE]
    /\ timeouts = [c \in Channels |-> 0]
    /\ exit_exc = [c \in Channels |-> "none"]
    /\ consumer_conn = [c \in Channels |-> NoConn]

\* self.conn.connection_errors of the py-amqp transport (line 53):
\* amqp's ConnectionError and socket.error, of which socket.timeout, what
\* drain_events(timeout=2) raises when nothing arrives, is a subclass.
ConnectionErrors == {"amqp.ConnectionError", "socket.error", "socket.timeout"}

\* What drain_events may raise: a connection error, or anything else, such
\* as an exception of the on_message callback.
DrainExceptions == ConnectionErrors \cup {"Exception"}

\* Variant: the except clause names the broker's errors only, so a timeout
\* is not caught.
IsConnectionError_NoTimeout(exc) == exc \in ConnectionErrors \ {"socket.timeout"}

\* except self.conn.connection_errors: (line 53)
IsConnectionError(exc) == exc \in ConnectionErrors

\* with self._AMQPConnection(self._get_conn_string()) as conn: (line 123)
\* each Consumer gets a connection made for it.
ConsumerConnection(c) == [of |-> "consumer", name |-> c]

\* for channel_name, config in self.channels.iteritems():
\*     spawn_greenlet(self._create_consumer, config)      (lines 133-134)
\* and in each greenlet Consumer(conn, config, self.on_message) (line 124),
\* whose __init__ sets keep_running (line 43).
CreateChannels ==
    /\ \A c \in Channels : cpc[c] = "unspawned"
    /\ cpc' = [c \in Channels |-> "created"]
    /\ keep_running' = [c \in Channels |-> TRUE]
    /\ consumer_conn' = [c \in Channels |-> ConsumerConnection(c)]
    /\ UNCHANGED <<connector_vars, life_vars, channels, timeouts, exit_exc>>

\* What heartbeat_check raises when the broker's heartbeats were missed.
HeartbeatError == "amqp.ConnectionForced"

\* The classes derived from Exception among what the calls of start raise.
ExceptionClasses == DrainExceptions \cup {HeartbeatError}

\* Variant: start without its try/except.
CaughtByStart_Nothing(exc) == FALSE

\* except Exception, e: (line 56)
CaughtByStart(exc) == exc \in ExceptionClasses

\* A Consumer's start ends: `except Exception` (lines 56-57) logs what was
\* raised and start returns; what the clause does not catch leaves start
\* and ends the greenlet; a loop left on keep_running ends with no
\* exception.
ConsumerStops(c, exc) ==
    /\ cpc' = [cpc EXCEPT ![c] = IF exc = "none" \/ CaughtByStart(exc)
                                  THEN "stopped" ELSE "crashed"]
    /\ exit_exc' = [exit_exc EXCEPT ![c] = exc]

\* consumer = _Consumer(...); consumer.consume() (lines 47-48): the
\* subscription is made, or raises.
ConsumerSubscribe(c) ==
    /\ cpc[c] = "created"
    /\ \/ /\ cpc' = [cpc EXCEPT ![c] = "loop"]
          /\ UNCHANGED exit_exc
       \/ ConsumerStops(c, "amqp.ConnectionError")
    /\ UNCHANGED <<connector_vars, life_vars, consumer_conn, channels, keep_running, timeouts>>

\* Variant: while True:
LoopGoesOn_Always(c) == TRUE

\* The test of `while self.keep_running:` (line 50).
LoopGoesOn(c) == keep_running[c]

\* while self.keep_running: (line 50)
ConsumerTest(c) ==
    /\ cpc[c] = "loop"
    /\ \/ /\ LoopGoesOn(c)
          /\ cpc' = [cpc EXCEPT ![c] = "drain"]
          /\ UNCHANGED exit_exc
       \/ /\ ~LoopGoesOn(c)
          /\ ConsumerStops(c, "none")
    /\ UNCHANGED <<connector_vars, life_vars, consumer_conn, channels, keep_running, timeouts>>

\* self.conn.drain_events(timeout=2) (line 52) returns after an event ...
ConsumerDrainReturns(c) ==
    /\ cpc[c] = "drain"
    /\ cpc' = [cpc EXCEPT ![c] = "loop"]
    /\ timeouts' = [timeouts EXCEPT ![c] = 0]
    /\ UNCHANGED <<connector_vars, life_vars, consumer_conn, channels, keep_running, exit_exc>>

\* ... or raises: a connection error goes to the heartbeat check (lines
\* 53-54), anything else to the except of line 56.
ConsumerDrainRaises(c, exc) ==
    /\ cpc[c] = "drain"
    /\ timeouts' = [timeouts EXCEPT ![c] =
                       IF exc # "socket.timeout" THEN 0
                       ELSE IF @ < MaxTimeouts THEN @ + 1 ELSE @]
    /\ \/ /\ IsConnectionError(exc)
          /\ cpc' = [cpc EXCEPT ![c] = "heartbeat"]
          /\ UNCHANGED exit_exc
       \/ /\ ~IsConnectionError(exc)
          /\ ConsumerStops(c, exc)
    /\ UNCHANGED <<connector_vars, life_vars, consumer_conn, channels, keep_running>>

\* self.conn.heartbeat_check() (line 54) returns, or raises, which line 56
\* catches.
ConsumerHeartbeat(c) ==
    /\ cpc[c] = "heartbeat"
    /\ \/ /\ cpc' = [cpc EXCEPT ![c] = "loop"]
          /\ UNCHANGED <<exit_exc, timeouts>>
       \/ /\ ConsumerStops(c, HeartbeatError)
          /\ timeouts' = [timeouts EXCEPT ![c] = 0]
    /\ UNCHANGED <<connector_vars, life_vars, consumer_conn, channels, keep_running>>

\* The owner of a Consumer clears its keep_running.
ClearKeepRunning(c) ==
    /\ cpc[c] \notin {"unspawned", "stopped"}
    /\ keep_running[c]
    /\ keep_running' = [keep_running EXCEPT ![c] = FALSE]
    /\ UNCHANGED <<connector_vars, life_vars, consumer_conn, channels, cpc, timeouts, exit_exc>>

\* No task is in a call of the connector.
NoCalls ==
    /\ lock = NoTask
    /\ pool_dirty = 0
    /\ pc = [t \in Tasks |-> "idle"]
    /\ op = [t \in Tasks |-> NoOp]
    /\ outconn_config = [t \in Tasks |-> NoConfig]
    /\ acquire_block = [t \in Tasks |-> PyNone]
    /\ acquire_timeout = [t \in Tasks |-> PyNone]
    /\ kwargs = [t \in Tasks |-> EmptyDict]
    /\ acq = [t \in Tasks |-> NoCall]
    /\ pub = [t \in Tasks |-> NoCall]
    /\ result = [t \in Tasks |-> "none"]

\* ------------------------------------------------------------------------
\* The connector's lifecycle: _start, create_outconns, _stop (lines 68-150)

\* self.conn = _AMQPConnection(...); self.conn.connect();
\* self.is_connected = self.conn.connected (lines 91-93): the broker is
\* reached, or connect raises and _start with it.
StartConnect ==
    /\ phase = "new"
    /\ \/ /\ conn' = "connected"
          /\ phase' = "starting"
       \/ /\ conn' = "unreachable"
          /\ phase' = "start_failed"
    /\ UNCHANGED <<connector_vars, consumer_vars, producers, pools, stop_log>>

\* self.conn.close(); self._consumers = []; self._producers = [] (lines
\* 102-106), and _start returns.
StartClose ==
    /\ phase = "starting"
    /\ conn' = "closed"
    /\ producers' = [kind |-> "list"]
    /\ phase' = "started"
    /\ UNCHANGED <<connector_vars, consumer_vars, pools, stop_log>>

\* self._producers = pools.Producers(limit=self.config.pool_size)
\* (line 141): a group with no pool yet.
CreateOutconns(limit) ==
    /\ phase = "started"
    /\ producers.kind = "list"
    /\ producers' = [kind |-> "group", limit |-> limit]
    /\ pools' = EmptyDict
    /\ UNCHANGED <<connector_vars, consumer_vars, phase, conn, stop_log>>

\* The connector once _start and create_outconns have run.
Started ==
    /\ phase = "started"
    /\ conn = "closed"
    /\ producers = [kind |-> "group", limit |-> pool_size]
    /\ pools = EmptyDict
    /\ stop_log = "none"

\* The connector once it has also served a first invoke: the pool of
\* self.conn is there, with a connection opened.
Serving ==
    /\ phase = "started"
    /\ conn = "closed"
    /\ producers = [kind |-> "group", limit |-> pool_size]
    /\ pools = (PoolKey :> [NewPool EXCEPT !.opened = 1])
    /\ stop_log = "none"

\* What closing a pooled connection raises when it fails.
CloseError == "socket.error"

\* except Exception, e: (line 149)
CaughtByStop(exc) == exc \in {"AttributeError", CloseError}

\* _stop ends: what line 149 catches is logged (line 150) and _stop
\* returns; anything else leaves _stop.
StopEnds(exc) ==
    /\ stop_log' = IF CaughtByStop(exc) THEN exc ELSE "none"
    /\ phase' = IF exc = "none" \/ CaughtByStop(exc)
                THEN "stopped" ELSE "stop_raised"

\* A pool all of whose connections force_close_all has closed ...
PoolClosed(pool) == [pool EXCEPT !.closed = pool.opened, !.shut = TRUE]

\* ... and one where the close of a connection raised after n were closed.
PoolFailed(pool, n) == [pool EXCEPT !.closed = n, !.shut = TRUE]

\* try:
\*     for pool in self._producers.values():
\*         pool.connections.force_close_all()
\* except Exception, e:
\*     logger.warn(format_exc(e))                          (lines 146-150)
\* One try holds the whole loop. The list of line 105 has no values():
\* AttributeError. On the group every pool is closed, or the close of one
\* connection of one pool raises, which ends force_close_all and the loop:
\* `done` are the pools closed before, n the connections of the failing
\* pool closed before.
Stop ==
    /\ phase = "started"
    /\ \/ /\ producers.kind # "group"
          /\ StopEnds("AttributeError")
          /\ UNCHANGED pools
       \/ /\ producers.kind = "group"
          /\ \/ /\ pools' = [k \in DOMAIN pools |-> PoolClosed(pools[k])]
                /\ StopEnds("none")
             \/ \E k \in DOMAIN pools :
                   \E done \in SUBSET (DOMAIN pools \ {k}) :
                      /\ pools[k].opened > 0
                      /\ \E n \in 0 .. (pools[k].opened - 1) :
                            pools' = [j \in DOMAIN pools |->
                                         IF j \in done THEN PoolClosed(pools[j])
                                         ELSE IF j = k THEN PoolFailed(pools[j], n)
                                         ELSE pools[j]]
                      /\ StopEnds(CloseError)
    /\ UNCHANGED <<connector_vars, consumer_vars, conn, producers>>

InitConsumer ==
    /\ outconns = EmptyDict
    /\ committed = outconns
    /\ NoCalls
    /\ channels \in [Channels -> [is_active : BOOLEAN]]
    /\ NoConsumers
    /\ Started

NextConsumer ==
    \/ CreateChannels
    \/ \E c \in Channels :
          \/ ConsumerSubscribe(c)
          \/ ConsumerTest(c)
          \/ ConsumerDrainReturns(c)
          \/ \E exc \in DrainExceptions : ConsumerDrainRaises(c, exc)
          \/ ConsumerHeartbeat(c)
          \/ ClearKeepRunning(c)

SpecConsumer == InitConsumer /\ [][NextConsumer]_vars

\* The steps of the greenlet that runs Consumer c's start (lines 45-57).
ConsumerStep(c) ==
    \/ ConsumerSubscribe(c)
    \/ ConsumerTest(c)
    \/ ConsumerDrainReturns(c)
    \/ \E exc \in DrainExceptions : ConsumerDrainRaises(c, exc)
    \/ ConsumerHeartbeat(c)

\* The Consumers with each greenlet running on: drain_events(timeout=2)
\* (line 52) returns or raises within its timeout, and so do the other
\* calls of the loop.
SpecConsumerFair ==
    /\ SpecConsumer
    /\ \A c \in Channels : WF_vars(ConsumerStep(c))

\* ------------------------------------------------------------------------
\* The connector under concurrent callers

\* The configs the admin calls carry.
AdminConfigs ==
    {[name |-> n, is_active |-> a, props |-> p] :
        n \in Names, a \in BOOLEAN,
        p \in {[AllEmpty EXCEPT !["priority"] = "5"]}}

\* The invoke calls of the concurrent callers.
InvokeCalls ==
    {[out_name |-> n, exchange |-> "/", routing_key |-> PyNone,
      headers |-> PyNone, properties |-> p, kwargs |-> k] :
        n \in Names,
        p \in {[given |-> FALSE]},
        k \in {EmptyDict, [acquire_block |-> PyFalse],
               [acquire_block |-> PyTrue, acquire_timeout |-> "5"]}}

Init ==
    /\ outconns = [n \in {Bystander} |->
                      [name |-> n, is_active |-> TRUE, props |-> AllEmpty]]
    /\ committed = outconns
    /\ NoCalls
    /\ channels = [c \in Channels |-> [is_active |-> TRUE]]
    /\ NoConsumers
    /\ Serving

Next ==
    \E t \in Tasks :
        \/ \E c \in AdminConfigs : CreateEnter(t, c)
        \/ CreateSet(t)
        \/ \E o \in Names, c \in AdminConfigs : EditEnter(t, o, c)
        \/ EditDel(t)
        \/ EditSet(t)
        \/ \E n \in Names : DeleteEnter(t, n)
        \/ DeleteDel(t)
        \/ InvokeEnter(t, InvokeCalls)
        \/ InvokeLookup(t)
        \/ InvokePrepare(t)
        \/ InvokeAcquire(t)
        \/ InvokePublish(t)
        \/ Return(t)

Spec == Init /\ [][Next]_vars

\* The steps of task t inside a with self.lock block (lines 166-167,
\* 170-172, 175-176, 184-185): dict operations, none of which waits.
LockedStep(t) ==
    \/ CreateSet(t)
    \/ EditDel(t)
    \/ EditSet(t)
    \/ DeleteDel(t)
    \/ InvokeLookup(t)

\* Task t takes the lock: the `with self.lock` of an operation it calls.
LockEnter(t) ==
    \/ \E c \in AdminConfigs : CreateEnter(t, c)
    \/ \E o \in Names, c \in AdminConfigs : EditEnter(t, o, c)
    \/ \E n \in Names : DeleteEnter(t, n)
    \/ InvokeEnter(t, InvokeCalls)

\* The same callers with every task wanting the lock: a task inside a with
\* block runs on, since nothing there waits, and a task at the with
\* statement gets the lock when it is free again and again.
SpecFair ==
    /\ Spec
    /\ \A t \in Tasks : WF_vars(LockedStep(t)) /\ SF_vars(LockEnter(t))

\* ------------------------------------------------------------------------
\* One caller of invoke, over the properties a caller may pass and the
\* defaults an outgoing connection may hold

\* Keys a caller may pass besides the recognized ones.
ExtraKeys == {"exchange", "routing_key", "headers", "timestamp"}

\* The most keys a caller's properties hold.
MaxCallerKeys == 2

CallerValues == {EmptyStr, Zero, "bob"}

CallerProperties ==
    {[given |-> FALSE]} \cup
    {[given |-> TRUE, d |-> d] :
        d \in UNION {[S -> CallerValues] :
                        S \in {K \in SUBSET (RecognizedKeys \cup ExtraKeys) :
                                  Cardinality(K) <= MaxCallerKeys}}}

\* The defaults of an outgoing connection: blank everywhere but at one key,
\* which is set, None, 0 or missing; or set everywhere.
StoredDefaults ==
    {AllEmpty, [k \in RecognizedKeys |-> "dflt"]}
    \cup {[AllEmpty EXCEPT ![k] = v] : k \in RecognizedKeys, v \in {"5", PyNone, Zero}}
    \cup {PopRest(AllEmpty, k) : k \in RecognizedKeys}

MergeCalls ==
    {[out_name |-> "A", exchange |-> e.exchange, routing_key |-> e.routing_key,
      headers |-> e.headers, properties |-> p, kwargs |-> EmptyDict] :
        e \in {[exchange |-> "/", routing_key |-> PyNone, headers |-> PyNone],
               [exchange |-> "orders", routing_key |-> "new",
                headers |-> "hdrs"]},
        p \in CallerProperties}
    \cup {[out_name |-> "B", exchange |-> "/", routing_key |-> PyNone,
           headers |-> PyNone, properties |-> [given |-> FALSE],
           kwargs |-> EmptyDict]}

InitMerge ==
    /\ outconns \in
          {[n \in {"A"} |-> c] :
              c \in {[name |-> "A", is_active |-> TRUE, props |-> d] :
                        d \in StoredDefaults}
                    \cup {[name |-> "A", is_active |-> FALSE,
                           props |-> AllEmpty]}}
    /\ committed = outconns
    /\ NoCalls
    /\ channels = [c \in Channels |-> [is_active |-> TRUE]]
    /\ NoConsumers
    /\ Serving

NextMerge ==
    \/ InvokeEnter("t1", MergeCalls)
    \/ InvokeLookup("t1")
    \/ InvokePrepare("t1")
    \/ InvokeAcquire("t1")
    \/ InvokePublish("t1")
    \/ Return("t1")

SpecMerge == InitMerge /\ [][NextMerge]_vars

\* ------------------------------------------------------------------------
\* The connector from _start to _stop, with its Consumers and one caller

\* The invoke calls made while the connector starts, runs and stops.
LifeCalls ==
    {[out_name |-> "A", exchange |-> "/", routing_key |-> PyNone,
      headers |-> PyNone, properties |-> [given |-> FALSE],
      kwargs |-> EmptyDict]}

\* A connector just constructed, with one active outgoing connection.
InitLife ==
    /\ outconns = [n \in {"A"} |->
                      [name |-> n, is_active |-> TRUE, props |-> AllEmpty]]
    /\ committed = outconns
    /\ NoCalls
    /\ channels = [c \in Channels |-> [is_active |-> TRUE]]
    /\ NoConsumers
    /\ phase = "new"
    /\ conn = "unset"
    /\ producers = [kind |-> "unset"]
    /\ pools = EmptyDict
    /\ stop_log = "none"

\* create_channels, called once the connector has started.
StartedCreateChannels == phase = "started" /\ CreateChannels

\* A call of invoke on the started connector.
StartedInvokeEnter(t) == phase = "started" /\ InvokeEnter(t, LifeCalls)

NextLife ==
    \/ StartConnect
    \/ StartClose
    \/ StartedCreateChannels
    \/ CreateOutconns(pool_size)
    \/ \E c \in Channels :
          \/ ConsumerSubscribe(c)
          \/ ConsumerTest(c)
          \/ ConsumerDrainReturns(c)
          \/ \E exc \in DrainExceptions : ConsumerDrainRaises(c, exc)
          \/ ConsumerHeartbeat(c)
          \/ ClearKeepRunning(c)
    \/ StartedInvokeEnter("t1")
    \/ InvokeLookup("t1")
    \/ InvokePrepare("t1")
    \/ InvokeAcquire("t1")
    \/ InvokePublish("t1")
    \/ Return("t1")
    \/ Stop

SpecLife == InitLife /\ [][NextLife]_vars

\* ------------------------------------------------------------------------
\* The connector from _start to _stop with two callers and a larger pool

\* self.config.pool_size of this connector.
StopPoolSize == 2

NextStop ==
    \/ StartConnect
    \/ StartClose
    \/ CreateOutconns(StopPoolSize)
    \/ \E t \in Tasks :
          \/ StartedInvokeEnter(t)
          \/ InvokeLookup(t)
          \/ InvokePrepare(t)
          \/ InvokeAcquire(t)
          \/ InvokePublish(t)
          \/ Return(t)
    \/ Stop

SpecStop == InitLife /\ [][NextStop]_vars

\* ------------------------------------------------------------------------
\* Properties

\* The caller passed `key` among its properties ...
CallerHas(args, key) ==
    args.properties.given /\ key \in DOMAIN args.properties.d

\* ... with a truthy value.
CallerTruthy(args, key) ==
    CallerHas(args, key) /\ Truthy(args.properties.d[key])

\* The outgoing connection holds a truthy default for `key`.
DefaultTruthy(config, key) ==
    key \in DOMAIN config.props /\ Truthy(config.props[key])

\* Task t is in an invoke that has read its outgoing connection's config.
InvokeHasConfig(t) ==
    op[t].kind = "invoke" /\ outconn_config[t] # NoConfig

\* C1: an invoke that read a config whose is_active is false ends with the
\* Inactive error, and neither asks the pool for a channel nor publishes.
C1_InactiveNoPublish ==
    \A t \in Tasks :
        (InvokeHasConfig(t) /\ ~outconn_config[t].is_active) =>
            /\ pc[t] \in {"inv_prepare", "done"}
            /\ pc[t] = "done" => result[t] = "Inactive"
            /\ acq[t] = NoCall
            /\ pub[t] = NoCall

C1_Witness ==
    \E t \in Tasks :
        /\ pc[t] = "done"
        /\ InvokeHasConfig(t)
        /\ ~outconn_config[t].is_active
        /\ result[t] = "Inactive"

\* C2: for every recognized key, what invoke publishes is the caller's value
\* when that is truthy, and otherwise the outgoing connection's default when
\* that is truthy.
C2_EffectiveValue ==
    \A t \in Tasks :
        pub[t].called =>
            \A key \in RecognizedKeys :
                /\ CallerTruthy(op[t].args, key) =>
                      /\ key \in DOMAIN pub[t].kwargs
                      /\ pub[t].kwargs[key] = op[t].args.properties.d[key]
                /\ (~CallerTruthy(op[t].args, key)
                        /\ DefaultTruthy(outconn_config[t], key)) =>
                      /\ key \in DOMAIN pub[t].kwargs
                      /\ pub[t].kwargs[key] = outconn_config[t].props[key]

\* A publish where the caller passed an empty string for a key whose
\* default is set, and the default went out.
C2_Witness ==
    \E t \in Tasks, key \in RecognizedKeys :
        /\ pub[t].called
        /\ CallerHas(op[t].args, key)
        /\ op[t].args.properties.d[key] = EmptyStr
        /\ DefaultTruthy(outconn_config[t], key)
        /\ pub[t].kwargs[key] = outconn_config[t].props[key]

\* C3 as stated: a recognized key with neither a truthy caller value nor a
\* truthy default is not among the keyword arguments of publish.
C3_KeyOmitted ==
    \A t \in Tasks :
        pub[t].called =>
            \A key \in RecognizedKeys :
                (~CallerTruthy(op[t].args, key)
                    /\ ~DefaultTruthy(outconn_config[t], key)) =>
                        key \notin DOMAIN pub[t].kwargs

\* C3 as amended: such a key is passed to publish with the value None when
\* the outgoing connection holds a falsy default for it; when the outgoing
\* connection holds no value for it at all, invoke ends with KeyError and
\* publishes nothing.
C3_PublishedAsNone ==
    \A t \in Tasks :
        InvokeHasConfig(t) =>
            \A key \in RecognizedKeys :
                (~CallerTruthy(op[t].args, key)
                    /\ ~DefaultTruthy(outconn_config[t], key)) =>
                        /\ pub[t].called =>
                              /\ key \in DOMAIN outconn_config[t].props
                              /\ key \in DOMAIN pub[t].kwargs
                              /\ pub[t].kwargs[key] = PyNone
                        /\ (key \notin DOMAIN outconn_config[t].props
                                /\ outconn_config[t].is_active
                                /\ pc[t] = "done") =>
                              /\ result[t] = "KeyError"
                              /\ pub[t] = NoCall

C3_Witness ==
    \E t \in Tasks, key \in RecognizedKeys :
        /\ pub[t].called
        /\ CallerHas(op[t].args, key)
        /\ op[t].args.properties.d[key] = EmptyStr
        /\ key \in DOMAIN outconn_config[t].props
        /\ outconn_config[t].props[key] = EmptyStr
        /\ pub[t].kwargs[key] = PyNone

\* The entries of d and e agree outside the names in `except`.
SameElsewhere(d, e, except) ==
    /\ (DOMAIN d) \ except = (DOMAIN e) \ except
    /\ \A n \in (DOMAIN d) \ except : d[n] = e[n]

\* C4: when edit_outconn from old_name to another name completes, old_name
\* is no key of the registry, name maps to the edited config, and every
\* other entry is as it was when the call took the lock.
C4_EditRenames ==
    [][\A t \in Tasks :
          (pc[t] = "edit_set" /\ pc'[t] # "edit_set"
              /\ op[t].old_name # op[t].config.name) =>
                /\ result'[t] = "ok"
                /\ op[t].old_name \notin DOMAIN outconns'
                /\ op[t].config.name \in DOMAIN outconns'
                /\ outconns'[op[t].config.name] = op[t].config
                /\ SameElsewhere(committed, outconns',
                                 {op[t].old_name, op[t].config.name})]_vars

C4_Witness ==
    \E t \in Tasks :
        /\ pc[t] = "done"
        /\ op[t].kind = "edit_outconn"
        /\ result[t] = "ok"
        /\ op[t].old_name # op[t].config.name
        /\ op[t].old_name \notin DOMAIN outconns
        /\ op[t].config.name \in DOMAIN outconns
        /\ outconns[op[t].config.name] = op[t].config
        /\ Bystander \in DOMAIN outconns

\* C5: edit_outconn with an old_name, and delete_outconn with a name, that
\* the registry does not hold end with KeyError, and leave the registry as
\* it was when the call took the lock.
C5_MissingNameRaises ==
    [][\A t \in Tasks :
          /\ (pc[t] = "edit_del" /\ pc'[t] # "edit_del"
                /\ op[t].old_name \notin DOMAIN outconns) =>
                  /\ pc'[t] = "done"
                  /\ result'[t] = "KeyError"
                  /\ outconns' = committed
          /\ (pc[t] = "delete" /\ pc'[t] # "delete"
                /\ op[t].name \notin DOMAIN outconns) =>
                  /\ pc'[t] = "done"
                  /\ result'[t] = "KeyError"
                  /\ outconns' = committed]_vars

\* Both failures at once: one task's edit_outconn and the other's
\* delete_outconn have ended with KeyError.
C5_Witness ==
    \E t, u \in Tasks :
        /\ pc[t] = "done" /\ op[t].kind = "edit_outconn"
        /\ result[t] = "KeyError"
        /\ op[t].config.name \notin DOMAIN outconns
        /\ pc[u] = "done" /\ op[u].kind = "delete_outconn"
        /\ result[u] = "KeyError"

\* C6 as stated: create_outconn with a name the registry already holds
\* fails, and the entry under that name stays.
C6_CreateExistingFails ==
    [][\A t \in Tasks :
          (pc[t] = "create" /\ pc'[t] # "create"
              /\ op[t].config.name \in DOMAIN outconns) =>
                /\ result'[t] # "ok"
                /\ outconns'[op[t].config.name] = outconns[op[t].config.name]]_vars

\* C6 as amended: create_outconn with a name the registry already holds
\* returns normally, and the entry under that name is the new config; every
\* other entry is as it was.
C6_CreateExistingReplaces ==
    [][\A t \in Tasks :
          (pc[t] = "create" /\ pc'[t] # "create"
              /\ op[t].config.name \in DOMAIN outconns) =>
                /\ pc'[t] = "done"
                /\ result'[t] = "ok"
                /\ outconns'[op[t].config.name] = op[t].config
                /\ SameElsewhere(committed, outconns', {op[t].config.name})]_vars

\* Two create_outconn calls for one name with different configs have both
\* returned, neither caller has gone on, and the registry holds the config
\* of one of them: that one found the other's entry there.
C6_Witness ==
    \E t, u \in Tasks :
        /\ t # u
        /\ pc[t] = "done" /\ op[t].kind = "create_outconn" /\ result[t] = "ok"
        /\ pc[u] = "done" /\ op[u].kind = "create_outconn" /\ result[u] = "ok"
        /\ op[t].config.name = op[u].config.name
        /\ op[t].config # op[u].config
        /\ outconns[op[t].config.name] = op[t].config

\* A task is inside a with self.lock block that changes the registry.
Mutating(u) == pc[u] \in {"create", "edit_del", "edit_set", "delete"}

\* C7: when an invoke reads the registry, the registry is as the last
\* completed create, edit or delete left it, and no other task is inside
\* a block under the lock; so no read sees the registry between the two
\* statements of edit_outconn.
C7_NoTornRead ==
    \A t \in Tasks :
        pc[t] = "inv_lookup" =>
            /\ outconns = committed
            /\ \A u \in Tasks \ {t} : ~Mutating(u) /\ pc[u] # "inv_lookup"

\* An edit_outconn stands between its two statements while the other
\* task's invoke, which has read the registry, is still under way.
C7_Witness ==
    \E t, u \in Tasks :
        /\ pc[u] = "edit_set"
        /\ outconns # committed
        /\ pc[t] \in {"inv_prepare", "inv_acquire", "inv_publish"}

\* C8: an invoke whose name the registry does not hold ends at the lookup
\* with KeyError, with no call to the pool and none to publish, and leaves
\* the registry and the pool as they were.
C8_UnknownNameRaises ==
    [][\A t \in Tasks :
          (pc[t] = "inv_lookup" /\ pc'[t] # "inv_lookup"
              /\ op[t].args.out_name \notin DOMAIN outconns) =>
                /\ pc'[t] = "done"
                /\ result'[t] = "KeyError"
                /\ acq'[t] = NoCall
                /\ pub'[t] = NoCall
                /\ pool_dirty' = pool_dirty
                /\ outconns' = outconns
                /\ outconns' = committed]_vars

C8_Witness ==
    \E t \in Tasks :
        /\ pc[t] = "done"
        /\ op[t].kind = "invoke"
        /\ outconn_config[t] = NoConfig
        /\ result[t] = "KeyError"
        /\ acq[t] = NoCall
        /\ pub[t] = NoCall

\* C10: the pool's acquire is called with the caller's acquire_block and
\* the caller's acquire_timeout.
C10_AcquireHonorsCaller ==
    \A t \in Tasks :
        acq[t].called =>
            /\ acq[t].block = PopValue(op[t].args.kwargs, "acquire_block", PyTrue)
            /\ acq[t].timeout =
                  PopValue(op[t].args.kwargs, "acquire_timeout", PyNone)

\* A Consumer is in its loop: testing keep_running, draining, or in the
\* heartbeat check.
Consuming(c) == cpc[c] \in {"loop", "drain", "heartbeat"}

\* C9: a Consumer that has met drain timeouts in a row, whose heartbeat
\* checks did not raise and whose keep_running is set, is in its loop, and
\* its next step from the top of the loop is another drain.
C9_TimeoutKeepsLoop ==
    /\ [](\A c \in Channels :
            (timeouts[c] > 0 /\ keep_running[c]) => Consuming(c))
    /\ [][\A c \in Channels :
            /\ (cpc[c] = "heartbeat" /\ timeouts[c] > 0
                    /\ cpc'[c] # "heartbeat" /\ timeouts'[c] > 0) =>
                  cpc'[c] = "loop"
            /\ (cpc[c] = "loop" /\ keep_running[c] /\ cpc'[c] # "loop") =>
                  cpc'[c] = "drain"]_vars

\* A Consumer drains again after two timeouts in a row.
C9_Witness ==
    \E c \in Channels :
        /\ timeouts[c] >= 2
        /\ keep_running[c]
        /\ cpc[c] = "drain"

\* C11: every invoke that acquired a pooled channel gives it back on every
\* way out of the with block, publish having returned or raised: the number
\* of channels checked out is the number of invokes between the acquire and
\* the release, is never above pool_size, and an invoke that has ended
\* holds none.
C11_ChannelReleased ==
    /\ pool_dirty = Cardinality({t \in Tasks : pc[t] = "inv_publish"})
    /\ pool_dirty <= pool_size
    /\ (\A t \in Tasks : pc[t] \in {"idle", "done"}) => pool_dirty = 0

\* An invoke acquired a channel, its publish raised, and the channel is
\* back in the pool.
C11_Witness ==
    \E t \in Tasks :
        /\ pc[t] = "done"
        /\ acq[t] # NoCall
        /\ result[t] = "PublishError"
        /\ pool_dirty = 0

\* C12: the lock is never held across network I/O: a task of invoke that is
\* at the pool's acquire or at publish does not hold the lock, so that the
\* registry operations of other tasks go on meanwhile.
C12_NoLockAcrossIO ==
    \A t \in Tasks : pc[t] \in {"inv_acquire", "inv_publish"} => lock # t

\* One task is at publish while another holds the lock inside a registry
\* operation.
C12_Witness ==
    \E t, u \in Tasks :
        /\ pc[t] = "inv_publish"
        /\ Mutating(u)
        /\ lock = u
\* The value the loop over the recognized keys gives `key`: the caller's
\* when truthy, else the outgoing connection's when truthy, else None.
EffectiveValue(args, config, key) ==
    IF CallerTruthy(args, key) THEN args.properties.d[key]
    ELSE IF DefaultTruthy(config, key) THEN config.props[key]
    ELSE PyNone

\* The caller's properties once the recognized keys are taken out of them.
Leftover(args) ==
    IF args.properties.given THEN DOMAIN args.properties.d \ RecognizedKeys
    ELSE {}

\* C19 as stated: whatever properties the caller passes, publish gets the
\* exchange and routing_key that invoke was called with, and the merge of
\* the leftover properties changes no recognized key.
C19_ArgumentsUntouched ==
    \A t \in Tasks :
        pub[t].called =>
            /\ pub[t].kwargs["exchange"] = op[t].args.exchange
            /\ pub[t].kwargs["routing_key"] = op[t].args.routing_key
            /\ \A key \in RecognizedKeys :
                  pub[t].kwargs[key] =
                      EffectiveValue(op[t].args, outconn_config[t], key)

\* C19 as amended: the merge of the leftover properties changes no
\* recognized key and adds each leftover key with the caller's value;
\* publish gets invoke's exchange and routing_key arguments unless the
\* properties themselves hold a key 'exchange' or 'routing_key', whose
\* value then takes the place of the argument.
C19_LeftoverWins ==
    \A t \in Tasks :
        pub[t].called =>
            /\ \A a \in {"exchange", "routing_key"} :
                  pub[t].kwargs[a] =
                      IF CallerHas(op[t].args, a)
                      THEN op[t].args.properties.d[a]
                      ELSE op[t].args[a]
            /\ \A key \in RecognizedKeys :
                  pub[t].kwargs[key] =
                      EffectiveValue(op[t].args, outconn_config[t], key)
            /\ \A key \in Leftover(op[t].args) :
                  pub[t].kwargs[key] = op[t].args.properties.d[key]
            /\ DOMAIN pub[t].kwargs =
                  {"exchange", "routing_key"} \cup RecognizedKeys
                      \cup Leftover(op[t].args)

\* A publish of an invoke called with exchange 'orders' and properties
\* that hold an 'exchange' of their own, next to a recognized key: the
\* property's exchange is what publish got.
C19_Witness ==
    \E t \in Tasks, key \in RecognizedKeys :
        /\ pub[t].called
        /\ op[t].args.exchange = "orders"
        /\ CallerHas(op[t].args, "exchange")
        /\ CallerTruthy(op[t].args, key)
        /\ pub[t].kwargs["exchange"] = op[t].args.properties.d["exchange"]
        /\ pub[t].kwargs["exchange"] # op[t].args.exchange
        /\ pub[t].kwargs[key] = op[t].args.properties.d[key]
\* Task t is inside a with self.lock block.
InLockedBlock(t) ==
    pc[t] \in {"create", "edit_del", "edit_set", "delete", "inv_lookup"}

\* C20: the lock is released on every way out of create_outconn,
\* edit_outconn, delete_outconn and the lookup of invoke, a KeyError
\* included: the lock is held by a task exactly while that task is inside
\* one of these blocks; so a held lock is set free, and a task waiting at a
\* with statement gets the lock.
C20_LockReleased ==
    /\ [](\A t \in Tasks : lock = t <=> InLockedBlock(t))
    /\ \A t \in Tasks : (lock = t) ~> (lock = NoTask)
    /\ \A t \in Tasks : (pc[t] = "idle") ~> (lock = t)

\* An edit has ended with KeyError, the lock is free, and another task has
\* taken it since.
C20_Witness ==
    \E t, u \in Tasks :
        /\ pc[t] = "done"
        /\ op[t].kind = "edit_outconn"
        /\ result[t] = "KeyError"
        /\ lock = u
        /\ InLockedBlock(u)
\* C13: when the heartbeat check of a Consumer raises, that Consumer's start
\* logs the exception and returns, the Consumer being stopped, and no other
\* Consumer changes.
C13_HeartbeatFailureContained ==
    [][\A c \in Channels :
          (cpc[c] = "heartbeat" /\ cpc'[c] \notin {"heartbeat", "loop"}) =>
              /\ cpc'[c] = "stopped"
              /\ exit_exc'[c] = HeartbeatError
              /\ \A d \in Channels \ {c} :
                    /\ cpc'[d] = cpc[d]
                    /\ keep_running'[d] = keep_running[d]
                    /\ timeouts'[d] = timeouts[d]
                    /\ exit_exc'[d] = exit_exc[d]]_vars

\* A Consumer stopped on its heartbeat check while another is in a drain.
C13_Witness ==
    \E c, d \in Channels :
        /\ cpc[c] = "stopped"
        /\ exit_exc[c] = HeartbeatError
        /\ cpc[d] = "drain"
        /\ keep_running[d]

\* C14: keep_running is read at the top of an iteration only: a Consumer
\* whose keep_running is cleared enters no drain, so that it finishes at
\* most the drain it is in and that drain's heartbeat check; and with
\* every drain returning within its timeout, it comes to be stopped.
C14_StopsOnceCleared ==
    /\ [][\A c \in Channels :
            (~keep_running[c] /\ cpc'[c] = "drain") => cpc[c] = "drain"]_vars
    /\ [][\A c \in Channels :
            (cpc[c] = "loop" /\ ~keep_running[c] /\ cpc'[c] # cpc[c]) =>
                (cpc'[c] = "stopped" /\ exit_exc'[c] = "none")]_vars
    /\ \A c \in Channels :
          (cpc[c] # "unspawned" /\ ~keep_running[c]) ~> (cpc[c] = "stopped")

\* A Consumer whose keep_running was cleared while it was running has left
\* its loop with no exception.
C14_Witness ==
    \E c \in Channels :
        /\ ~keep_running[c]
        /\ cpc[c] = "stopped"
        /\ exit_exc[c] = "none"
\* C15 as stated: once the connector's stop has completed, no Consumer of
\* the connector is in its loop.
C15_NoConsumerAfterStop ==
    phase = "stopped" => \A c \in Channels : ~Consuming(c)

\* C16 as stated: once create_channels has run, a channel has a Consumer
\* exactly when its is_active is true.
C16_ConsumerIffActive ==
    (\E c \in Channels : cpc[c] # "unspawned") =>
        \A c \in Channels : cpc[c] # "unspawned" <=> channels[c].is_active

Unclosed(ps) ==
    {k \in DOMAIN ps : ps[k].closed < ps[k].opened}

\* C18 as stated: stop never raises to its caller, and when the close of
\* one pooled connection raises, the error is logged and every other
\* pooled connection is closed all the same: one connection at most is
\* left open, the one whose close raised.
C18_StopBestEffort ==
    [][(phase = "started" /\ phase' # "started") =>
          /\ phase' = "stopped"
          /\ \A k \in DOMAIN pools' :
                pools'[k].closed >=
                    pools'[k].opened - (IF stop_log' = CloseError THEN 1 ELSE 0)
          /\ Cardinality(Unclosed(pools')) <=
                (IF stop_log' = CloseError THEN 1 ELSE 0)]_vars
====
